---- MODULE Spec2Model ----
(***************************************************************************)
(* YT-Claim-Verifier: the check-claims request pipeline of the two Flask   *)
(* revisions (src/ytverifier.py with its multi-configuration caption       *)
(* retrieval, src/h.py with its single attempt), the URL parsers, the      *)
(* subtitle cleaning, the staging files of requests handled side by side   *)
(* (src/p.py included) and src/main.py's extract_transcript.               *)
(*                                                                         *)
(* Python values: a str is a sequence of one-character strings, None is    *)
(* the one-element sequence <<"None">> (never a str, whose elements have    *)
(* one character each), a dict is a set of <<key, value>> pairs.            *)
(***************************************************************************)
EXTENDS Integers, Sequences, FiniteSets, TLC

VARIABLES rev, GEMINI_API_KEY, pc, data, video_url, video, i, rtitle, disk,
          video_title, transcript, claims, response, attempts, sleeps, botOnly, llm,
          titleBy, textBy, propagated, health, input, output, workers, cwd, calls

\* the state of one check-claims request
request == <<rev, GEMINI_API_KEY, pc, data, video_url, video, i, rtitle, disk,
             video_title, transcript, claims, response, attempts, sleeps, botOnly, llm,
             titleBy, textBy, propagated>>

\* the attempt whose extract_info gave the title held, and the attempt whose
\* download wrote the file the returned text was read from (0: none)
payload == <<titleBy, textBy>>

\* the requests handled side by side and the working directory they share
staging == <<workers, cwd>>

\* what a check-claims request leaves alone
aside == <<health, input, output, staging, calls>>

vars == <<request, aside>>

----------------------------------------------------------------------------
(* Python str / None / dict helpers *)

None == <<"None">>

Truthy(v) == v # None /\ v # <<>>

Rep(c, n) == [k \in 1..n |-> c]

StartsWith(s, p) == Len(s) >= Len(p) /\ SubSeq(s, 1, Len(p)) = p

Contains(s, p) == \E k \in 1..(Len(s) - Len(p) + 1) : SubSeq(s, k, k + Len(p) - 1) = p

\* least index >= from of a character of cs in s, 0 when there is none
Find(s, cs, from) ==
    LET hits == {k \in from..Len(s) : s[k] \in cs}
    IN IF hits = {} THEN 0 ELSE CHOOSE k \in hits : \A m \in hits : k <= m

Drop(s, n) == SubSeq(s, n + 1, Len(s))

\* str.split(sep): the pieces between the occurrences of the character sep
Split(s, sep) ==
    LET seps == {k \in 1..Len(s) : s[k] = sep}
        n == Cardinality(seps)
        \* position of the j-th separator; 0 before the first, Len(s)+1 after the last
        pos(j) == IF j = 0 THEN 0
                  ELSE IF j = n + 1 THEN Len(s) + 1
                  ELSE CHOOSE k \in seps : Cardinality({m \in seps : m < k}) = j - 1
    IN [j \in 1..(n + 1) |-> SubSeq(s, pos(j - 1) + 1, pos(j) - 1)]

DictGet(d, key, default) ==
    IF \E p \in d : p[1] = key THEN (CHOOSE p \in d : p[1] = key)[2] ELSE default

MinChars == 50

Digits == {"0","1","2","3","4","5","6","7","8","9"}
LowerLetters == <<"a","b","c","d","e","f","g","h","i","j","k","l","m","n","o","p","q","r","s","t","u","v","w","x","y","z">>
UpperLetters == <<"A","B","C","D","E","F","G","H","I","J","K","L","M","N","O","P","Q","R","S","T","U","V","W","X","Y","Z">>
Letters == {LowerLetters[k] : k \in 1..26} \cup {UpperLetters[k] : k \in 1..26}
Whitespace == {" ", "\n", "\t", "\r"}

ToLower(c) ==
    IF \E k \in 1..26 : UpperLetters[k] = c
    THEN LowerLetters[CHOOSE k \in 1..26 : UpperLetters[k] = c] ELSE c

Lower(s) == [k \in 1..Len(s) |-> ToLower(s[k])]

----------------------------------------------------------------------------
(* urllib.parse as used by extract_video_id *)

SchemeChars == Letters \cup Digits \cup {"+", "-", "."}

\* the scheme prefix "<letter><scheme chars>*:" is cut off when there is one
AfterScheme(url, colon) ==
    IF /\ colon > 1
       /\ url[1] \in Letters
       /\ \A k \in 1..(colon - 1) : url[k] \in SchemeChars
    THEN Drop(url, colon) ELSE url

\* the host of a netloc: after the last "@", before the first ":", lower case
Hostname(netloc) ==
    LET hostinfo == Split(netloc, "@")[Len(Split(netloc, "@"))]
        host == Split(hostinfo, ":")[1]
    IN IF host = <<>> THEN None ELSE Lower(host)

\* path and query of what follows the netloc, its fragment cut off
PathAndQuery(u, qm) ==
    [path |-> IF qm = 0 THEN u ELSE SubSeq(u, 1, qm - 1),
     query |-> IF qm = 0 THEN <<>> ELSE Drop(u, qm)]

NoFragment(u, hash) == IF hash = 0 THEN u ELSE SubSeq(u, 1, hash - 1)

Parsed(netloc, rest) ==
    [hostname |-> Hostname(netloc),
     path |-> PathAndQuery(NoFragment(rest, Find(rest, {"#"}, 1)),
                           Find(NoFragment(rest, Find(rest, {"#"}, 1)), {"?"}, 1)).path,
     query |-> PathAndQuery(NoFragment(rest, Find(rest, {"#"}, 1)),
                            Find(NoFragment(rest, Find(rest, {"#"}, 1)), {"?"}, 1)).query]

\* the netloc runs from after "//" to the first of "/", "?", "#"
SplitNetloc(u, netEnd) ==
    IF netEnd = 0 THEN Parsed(u, <<>>)
    ELSE Parsed(SubSeq(u, 1, netEnd - 1), Drop(u, netEnd - 1))

UrlSplit(u) ==
    IF StartsWith(u, <<"/","/">>)
    THEN SplitNetloc(Drop(u, 2), Find(Drop(u, 2), {"/", "?", "#"}, 1))
    ELSE Parsed(<<>>, u)

\* urlparse(url): hostname, path and query
urlparse(url) == UrlSplit(AfterScheme(url, Find(url, {":"}, 1)))

\* parse_qs(query)[key]: the non-blank values of key, in order
parse_qs(query, key) ==
    LET pairs == Split(query, "&")
        IsKey(p) == LET eq == Find(p, {"="}, 1)
                    IN eq # 0 /\ SubSeq(p, 1, eq - 1) = key /\ Drop(p, eq) # <<>>
        hits == SelectSeq(pairs, IsKey)
    IN [k \in 1..Len(hits) |-> Drop(hits[k], Find(hits[k], {"="}, 1))]

\* the branches of extract_video_id on the parsed URL
VideoIdOf(parsed_url) ==
    IF parsed_url.hostname \in {<<"y","o","u","t","u",".","b","e">>}
    THEN [raised |-> FALSE, value |-> Drop(parsed_url.path, 1)]
    ELSE IF parsed_url.hostname \in {<<"w","w","w",".","y","o","u","t","u","b","e",".","c","o","m">>, <<"y","o","u","t","u","b","e",".","c","o","m">>, <<"m",".","y","o","u","t","u","b","e",".","c","o","m">>}
    THEN IF parsed_url.path = <<"/","w","a","t","c","h">>
         THEN LET v == parse_qs(parsed_url.query, <<"v">>)
              IN IF Len(v) = 0 THEN [raised |-> TRUE, value |-> <<"'","v","'">>]
                 ELSE [raised |-> FALSE, value |-> v[1]]
         ELSE IF StartsWith(parsed_url.path, <<"/","e","m","b","e","d","/">>) \/ StartsWith(parsed_url.path, <<"/","v","/">>)
         THEN [raised |-> FALSE, value |-> Split(parsed_url.path, "/")[3]]
         ELSE [raised |-> FALSE, value |-> None]
    ELSE [raised |-> FALSE, value |-> None]

\* a parser that does not look at the query string
ExtractVideoIdNoQuery(url) == VideoIdOf([urlparse(url) EXCEPT !.query = <<>>])

\* extract_video_id: the identifier, None, or the KeyError of a /watch URL
\* whose query has no v value
extract_video_id(url) == VideoIdOf(urlparse(url))

----------------------------------------------------------------------------
(* main.py's extract_video_id *)

\* the character class [0-9A-Za-z_-]
IdChars == Letters \cup Digits \cup {"_", "-"}

\* re.search of (?:p1|p2|..)([0-9A-Za-z_-]{11}): group 1 of the leftmost
\* match, None when there is no match
SearchId(url, prefixes) ==
    LET MatchAt(k, p) == /\ k + Len(p) + 10 <= Len(url)
                         /\ SubSeq(url, k, k + Len(p) - 1) = p
                         /\ \A m \in 0..10 : url[k + Len(p) + m] \in IdChars
        hits == {k \in 1..Len(url) : \E p \in prefixes : MatchAt(k, p)}
        Group(k) == LET p == CHOOSE q \in prefixes : MatchAt(k, q)
                    IN SubSeq(url, k + Len(p), k + Len(p) + 10)
    IN IF hits = {} THEN None ELSE Group(CHOOSE k \in hits : \A m \in hits : k <= m)

\* url.split("v=")[-1].split("&")[0]
SplitFallback(url) ==
    LET marks == {k \in 1..(Len(url) - 1) : url[k] = "v" /\ url[k + 1] = "="}
        rest == IF marks = {} THEN url
                ELSE Drop(url, (CHOOSE k \in marks : \A m \in marks : k >= m) + 1)
    IN Split(rest, "&")[1]

patterns == << {<<"v","=">>, <<"/">>}, {<<"e","m","b","e","d","/">>}, {<<"y","o","u","t","u",".","b","e","/">>} >>

\* the first pattern that matches, else the fallback
main_extract_video_id(url) ==
    IF SearchId(url, patterns[1]) # None THEN SearchId(url, patterns[1])
    ELSE IF SearchId(url, patterns[2]) # None THEN SearchId(url, patterns[2])
    ELSE IF SearchId(url, patterns[3]) # None THEN SearchId(url, patterns[3])
    ELSE SplitFallback(url)

----------------------------------------------------------------------------
(* Subtitle cleaning of extract_subtitles_ytdlp_robust / extract_subtitles *)

\* a strip that removes one leading whitespace character only
StripLeadingOne(s) == IF s # <<>> /\ s[1] \in Whitespace THEN Drop(s, 1) ELSE s

\* str.strip(): from the first to the last character that is no whitespace
Strip(s) ==
    LET keep == {k \in 1..Len(s) : s[k] \notin Whitespace}
    IN IF keep = {} THEN <<>>
       ELSE SubSeq(s, CHOOSE k \in keep : \A m \in keep : k <= m,
                      CHOOSE k \in keep : \A m \in keep : k >= m)

IsDigit(s) == s # <<>> /\ \A k \in 1..Len(s) : s[k] \in Digits

RECURSIVE Join(_, _)
Join(lines, sep) ==
    IF lines = <<>> THEN <<>>
    ELSE IF Len(lines) = 1 THEN lines[1]
    ELSE lines[1] \o sep \o Join(Tail(lines), sep)

\* the VTT branch: keep the stripped lines that are no header, note,
\* timecode or cue index, joined by single spaces
CleanVtt(content) ==
    LET lines == Split(content, "\n")
        stripped == [k \in 1..Len(lines) |-> Strip(lines[k])]
        Keep(line) == /\ line # <<>>
                      /\ ~StartsWith(line, <<"W","E","B","V","T","T">>)
                      /\ ~StartsWith(line, <<"N","O","T","E">>)
                      /\ ~Contains(line, <<"-","-",">">>)
                      /\ ~IsDigit(line)
    IN Join(SelectSeq(stripped, Keep), <<" ">>)

\* \d{2}:\d{2}:\d{2},\d{3} --> \d{2}:\d{2}:\d{2},\d{3} with d for \d
TimecodePattern == <<"d","d",":","d","d",":","d","d",",","d","d","d"," ","-","-",">"," ","d","d",":","d","d",":","d","d",",","d","d","d">>

\* last index of the match of \d+\n<timecode>\n that starts at k, 0 if none
SrtMatchEnd(s, k) ==
    LET nondigit == {m \in k..Len(s) : s[m] \notin Digits}
        nl == IF nondigit = {} THEN 0 ELSE CHOOSE m \in nondigit : \A n \in nondigit : m <= n
        last == nl + Len(TimecodePattern) + 1
    IN IF /\ nl > k
          /\ s[nl] = "\n"
          /\ last <= Len(s)
          /\ \A m \in 1..Len(TimecodePattern) :
                IF TimecodePattern[m] = "d" THEN s[nl + m] \in Digits
                ELSE s[nl + m] = TimecodePattern[m]
          /\ s[last] = "\n"
       THEN last ELSE 0

RECURSIVE SubSrtBlocks(_, _)
SubSrtBlocks(s, k) ==
    IF k > Len(s) THEN <<>>
    ELSE LET e == SrtMatchEnd(s, k)
         IN IF e # 0 THEN SubSrtBlocks(s, e + 1) ELSE <<s[k]>> \o SubSrtBlocks(s, k + 1)

RECURSIVE SkipNewlines(_)
SkipNewlines(s) == IF s # <<>> /\ Head(s) = "\n" THEN SkipNewlines(Tail(s)) ELSE s

RECURSIVE SubNewlines(_)
SubNewlines(s) ==
    IF s = <<>> THEN <<>>
    ELSE IF Head(s) = "\n" THEN <<" ">> \o SubNewlines(SkipNewlines(s))
    ELSE <<Head(s)>> \o SubNewlines(Tail(s))

\* the SRT branch: drop index+timecode blocks, newline runs to one space, strip
CleanSrt(content) == Strip(SubNewlines(SubSrtBlocks(content, 1)))

\* the cleaning chosen by the file extension: .vtt, or anything else as SRT
Clean(fmt, content) == IF fmt = "vtt" THEN CleanVtt(content) ELSE CleanSrt(content)

----------------------------------------------------------------------------
(* Response and failure messages *)

MsgUrlRequired == <<"V","i","d","e","o"," ","U","R","L"," ","i","s"," ","r","e","q","u","i","r","e","d">>
MsgNoKey == <<"G","e","m","i","n","i"," ","A","P","I"," ","k","e","y"," ","n","o","t"," ","c","o","n","f","i","g","u","r","e","d">>
MsgInvalidUrl == <<"I","n","v","a","l","i","d"," ","Y","o","u","T","u","b","e"," ","U","R","L">>
MsgAllFailed == <<"A","l","l"," ","y","t","-","d","l","p"," ","c","o","n","f","i","g","u","r","a","t","i","o","n","s"," ","f","a","i","l","e","d","."," ","T","h","e"," ","v","i","d","e","o"," ","m","a","y"," ","n","o","t"," ","h","a","v","e"," ","s","u","b","t","i","t","l","e","s"," ","o","r"," ","s","e","r","v","e","r"," ","a","c","c","e","s","s"," ","i","s"," ","r","e","s","t","r","i","c","t","e","d",".">>
MsgNoMeaningful == <<"C","o","u","l","d"," ","n","o","t"," ","e","x","t","r","a","c","t"," ","m","e","a","n","i","n","g","f","u","l"," ","t","r","a","n","s","c","r","i","p","t"," ","c","o","n","t","e","n","t">>
MsgNoSubtitlesFile == <<"N","o"," ","s","u","b","t","i","t","l","e","s"," ","f","o","u","n","d"," ","f","o","r"," ","t","h","i","s"," ","v","i","d","e","o">>
MsgCouldNotSubtitles == <<"C","o","u","l","d"," ","n","o","t"," ","e","x","t","r","a","c","t"," ","s","u","b","t","i","t","l","e","s"," ","f","r","o","m"," ","v","i","d","e","o">>
MsgCouldNotClaims == <<"C","o","u","l","d"," ","n","o","t"," ","e","x","t","r","a","c","t"," ","c","l","a","i","m","s">>
MsgCouldNotFactCheck == <<"C","o","u","l","d"," ","n","o","t"," ","f","a","c","t","-","c","h","e","c","k"," ","c","l","a","i","m","s">>

Pending == [status |-> 0, body |-> [pending |-> TRUE]]

ErrorResponse(msg, code) == [status |-> code, body |-> [error |-> msg]]

----------------------------------------------------------------------------------------------------------------------------------------
(* Inputs: request bodies, videos, adapter outcomes, LLM outcomes *)

\* URLs of an existing video
VideoUrls ==
    { <<"h","t","t","p","s",":","/","/","w","w","w",".","y","o","u","t","u","b","e",".","c","o","m","/","w","a","t","c","h","?","v","=","A","B","C","D","E","F","G","H","I","J","K">>,
      <<"h","t","t","p","s",":","/","/","w","w","w",".","y","o","u","t","u","b","e",".","c","o","m","/","e","m","b","e","d","/","A","B","C","D","E","F","G","H","I","J","K">> }

\* strings that lead to no video
OtherUrls ==
    { <<"h","t","t","p","s",":","/","/","y","o","u","t","u",".","b","e","/","a","b","c">>,
      <<"h","t","t","p","s",":","/","/","w","w","w",".","y","o","u","t","u","b","e",".","c","o","m","/","w","a","t","c","h">>,
      <<"h","t","t","p","s",":","/","/","y","o","u","t","u",".","b","e","/">>,
      <<"h","t","t","p","s",":","/","/","e","x","a","m","p","l","e",".","c","o","m","/","v","i","d","e","o">>,
      <<"n","o","t"," ","a"," ","u","r","l">> }

Urls == VideoUrls \cup OtherUrls

\* JSON object bodies: no video_url field, a null or empty one, a URL string
Bodies == {{}} \cup {{<<"video_url", u>>} : u \in {None, <<>>} \cup Urls}

BotError == <<"S","i","g","n"," ","i","n"," ","t","o"," ","c","o","n","f","i","r","m"," ","y","o","u","'","r","e"," ","n","o","t"," ","a"," ","b","o","t">>
NetError == <<"t","i","m","e","d"," ","o","u","t">>
UrlError == <<"U","n","s","u","p","p","o","r","t","e","d"," ","U","R","L">>

\* character counts of the caption text a video carries
TextLens == {0, 10, MinChars, MinChars + 1}

\* a video: the info dict yt-dlp extracts for it, the length of its caption
\* text, the languages it has captions in, and the subtitle format the
\* platform delivers ("requested": whichever format the options ask for)
BaseVideo ==
    [exists |-> TRUE, info |-> {<<"title", <<"T","e","s","t"," ","V","i","d","e","o">>>>}, n |-> MinChars + 1,
     langs |-> {"en"}, delivers |-> "requested"]

Videos ==
    {[BaseVideo EXCEPT !.n = n] : n \in TextLens}
    \cup {[BaseVideo EXCEPT !.info = d] : d \in {{}, {<<"title", None>>}}}
    \cup {[BaseVideo EXCEPT !.langs = l] : l \in {{}, {"en-US"}, {"en", "en-US", "en-GB"}}}
    \cup {[BaseVideo EXCEPT !.delivers = f] : f \in {"vtt", "ttml"}}

\* what a URL of no video leads to
NoVideo == [exists |-> FALSE, info |-> {}, n |-> 0, langs |-> {}, delivers |-> "requested"]

VideosAt(url) == IF url \in VideoUrls THEN Videos ELSE {NoVideo}

\* ydl.extract_info: raises, or returns the info dict
InfoOutcomes(v) ==
    IF v.exists
    THEN {[error |-> e, info |-> {}] : e \in {BotError, NetError}}
         \cup {[error |-> None, info |-> v.info]}
    ELSE {[error |-> e, info |-> {}] : e \in {UrlError, NetError}}

\* what yt-dlp writes for a caption track of n characters in format fmt
RawSubtitle(fmt, n) ==
    IF fmt = "vtt" THEN <<"W","E","B","V","T","T","\n","\n","0","0",":","0","0",":","0","1",".","0","0","0"," ","-","-",">"," ","0","0",":","0","0",":","0","4",".","0","0","0","\n">> \o Rep("a", n) \o <<"\n">>
    ELSE IF fmt = "srt" THEN <<"1","\n","0","0",":","0","0",":","0","1",",","0","0","0"," ","-","-",">"," ","0","0",":","0","0",":","0","4",",","0","0","0","\n">> \o Rep("a", n) \o <<"\n">>
    ELSE <<"<","t","t",">">> \o Rep("a", n) \o <<"<","/","t","t",">">>

\* the requested languages the video has captions in, in request order
Available(opts, v) == SelectSeq(opts.subtitleslangs, LAMBDA l : l \in v.langs)

\* ydl.download under opts: the subtitle files it writes, one per available
\* requested language, or the DownloadError it raises after writing the
\* files of the first m of them
DownloadOutcomes(opts, v) ==
    LET langs == Available(opts, v)
        fmt == IF v.delivers = "requested" THEN opts.subtitlesformat ELSE v.delivers
    IN IF v.exists
       THEN [langs : {{langs[k] : k \in 1..Len(langs)}}, fmt : {fmt}, error : {None}]
            \cup [langs : {{langs[k] : k \in 1..m} : m \in 0..Len(langs)}, fmt : {fmt},
                  error : {BotError, NetError}]
       ELSE [langs : {{}}, fmt : {fmt}, error : {UrlError, NetError}]

\* model.generate_content(prompt) followed by response.text
LlmOutcomes ==
    {[error |-> <<"q","u","o","t","a"," ","e","x","c","e","e","d","e","d">>, text |-> None]}
    \cup {[error |-> None, text |-> t] :
            t \in {<<>>, <<"1","."," ","T","h","e"," ","s","k","y"," ","i","s"," ","b","l","u","e">>, <<"E","r","r","o","r","s"," ","o","f"," ","f","a","c","t",":"," ","n","o","n","e">>}}

----------------------------------------------------------------------------
(* Caption retrieval *)

MaxAttempts == 6

\* the four yt-dlp option sets of extract_subtitles_ytdlp_robust
configs ==
    << [subtitleslangs |-> <<"en", "en-US", "en-GB">>, subtitlesformat |-> "vtt",
        player_client |-> "android"],
       [subtitleslangs |-> <<"en">>, subtitlesformat |-> "vtt", player_client |-> "ios"],
       [subtitleslangs |-> <<"en">>, subtitlesformat |-> "srt", player_client |-> "web"],
       [subtitleslangs |-> <<"en">>, subtitlesformat |-> "srt", player_client |-> "default"] >>

\* the option set of h.py's extract_subtitles
options == [subtitleslangs |-> <<"en">>, subtitlesformat |-> "srt", player_client |-> "default"]

subtitle_extensions ==
    << [lang |-> "en", fmt |-> "vtt"], [lang |-> "en", fmt |-> "srt"],
       [lang |-> "en-US", fmt |-> "vtt"], [lang |-> "en-US", fmt |-> "srt"],
       [lang |-> "en-GB", fmt |-> "vtt"], [lang |-> "en-GB", fmt |-> "srt"] >>

\* the disk after a download wrote temp_filename.<lang>.<fmt> for each
\* language of dl (an existing file of that name is overwritten)
WriteFiles(d, dl, v, attempt) ==
    {f \in d : ~(f.lang \in dl.langs /\ f.fmt = dl.fmt)}
    \cup {[lang |-> l, fmt |-> dl.fmt, n |-> v.n, by |-> attempt] : l \in dl.langs}

\* os.path.exists(subtitle_file)
Exists(d, ext) == \E f \in d : f.lang = ext.lang /\ f.fmt = ext.fmt

FileAt(d, ext) == CHOOSE f \in d : f.lang = ext.lang /\ f.fmt = ext.fmt

\* open(subtitle_file).read() and the cleaning by extension, for each file
\* the adapter can write: CleanVtt for .vtt, CleanSrt otherwise
Cleaned ==
    [fmt \in {"vtt", "srt"}, n \in TextLens |-> Clean(fmt, RawSubtitle(fmt, n))]

\* the scan over subtitle_extensions from position k: each file found is
\* read, cleaned by its extension and removed; the first text longer than
\* MinChars is returned
RECURSIVE ScanFiles(_, _)
ScanFiles(d, k) ==
    IF k > Len(subtitle_extensions) THEN [found |-> FALSE, text |-> <<>>, disk |-> d, by |-> 0]
    ELSE LET ext == subtitle_extensions[k]
         IN IF Exists(d, ext)
            THEN LET f == FileAt(d, ext)
                     text == Cleaned[ext.fmt, f.n]
                 IN IF text # <<>> /\ Len(text) > MinChars
                    THEN [found |-> TRUE, text |-> text, disk |-> d \ {f}, by |-> f.by]
                    ELSE ScanFiles(d \ {f}, k + 1)
            ELSE ScanFiles(d, k + 1)

\* a loop that does not advance to the next configuration
NextIndexStuck(k) == k

\* enumerate(configs): the index after k
NextIndex(k) == k + 1

\* the tail of ytverifier's extract_subtitles on the pair returned by
\* extract_subtitles_ytdlp_robust
ExtractSubtitlesResult(title, text) ==
    IF Truthy(text) /\ Truthy(title) /\ Len(text) > MinChars
    THEN <<title, text>>
    ELSE <<None, MsgNoMeaningful>>

\* check_claims after extract_subtitles returned: the 400 response, or
\* Pending to go on to claim extraction
AfterSubtitles(r, title, text) ==
    IF r = "ytverifier"
    THEN IF ~Truthy(text) \/ ~Truthy(title)
         THEN ErrorResponse(IF Truthy(text) THEN text ELSE MsgCouldNotSubtitles, 400)
         ELSE Pending
    ELSE IF ~Truthy(text) THEN ErrorResponse(MsgCouldNotSubtitles, 400)
         ELSE IF title = None THEN ErrorResponse(text, 400)
         ELSE Pending

\* extract_subtitles has returned ret = (title, text): check_claims goes on
Returned(ret) ==
    LET resp == AfterSubtitles(rev, ret[1], ret[2])
    IN /\ video_title' = ret[1]
       /\ transcript' = ret[2]
       /\ response' = resp
       /\ pc' = IF resp = Pending THEN "claims" ELSE "responded"

----------------------------------------------------------------------------
(* check_claims *)

\* the credential check made before the URL check
ValidateKeyFirst(url, key) ==
    IF ~key THEN ErrorResponse(MsgNoKey, 500)
    ELSE IF ~Truthy(url) THEN ErrorResponse(MsgUrlRequired, 400)
    ELSE Pending

\* the two checks at the head of check_claims
Validate(url, key) ==
    IF ~Truthy(url) THEN ErrorResponse(MsgUrlRequired, 400)
    ELSE IF ~key THEN ErrorResponse(MsgNoKey, 500)
    ELSE Pending

\* POST /api/check-claims up to the first adapter call
CheckClaims ==
    /\ pc = "idle"
    /\ \E d \in Bodies :
         LET url == DictGet(d, "video_url", None)
             chk == Validate(url, GEMINI_API_KEY)
             \* extract_subtitles(video_url), vid the outcome of extract_video_id
             Subtitles(vid) ==
                 IF rev = "h"
                 THEN /\ pc' = "retrieving"
                      /\ video' \in VideosAt(url)
                      /\ UNCHANGED <<response, video_title, transcript, rtitle, propagated>>
                 ELSE IF vid.raised
                 THEN /\ propagated' = vid.value
                      /\ response' = ErrorResponse(<<"U","n","e","x","p","e","c","t","e","d"," ","e","r","r","o","r",":"," ">> \o vid.value, 500)
                      /\ pc' = "responded"
                      /\ UNCHANGED <<video_title, transcript, rtitle, video>>
                 ELSE IF ~Truthy(vid.value)
                 THEN /\ Returned(<<None, MsgInvalidUrl>>)
                      /\ UNCHANGED <<rtitle, video, propagated>>
                 ELSE /\ pc' = "retrieving"
                      /\ video' \in VideosAt(url)
                      /\ rtitle' = <<"U","n","k","n","o","w","n"," ","V","i","d","e","o">>
                      /\ UNCHANGED <<response, video_title, transcript, propagated>>
         IN /\ data' = d
            /\ video_url' = url
            /\ IF chk # Pending
               THEN /\ response' = chk
                    /\ pc' = "responded"
                    /\ UNCHANGED <<video_title, transcript, rtitle, video, propagated>>
               ELSE Subtitles(extract_video_id(url))
    /\ UNCHANGED <<aside, payload, rev, GEMINI_API_KEY, i, disk, claims, attempts, sleeps,
                   botOnly, llm>>

\* one pass of the loop over configs in extract_subtitles_ytdlp_robust
RobustAttempt ==
    /\ pc = "retrieving"
    /\ rev = "ytverifier"
    /\ attempts < MaxAttempts
    /\ \E info \in InfoOutcomes(video), dl \in DownloadOutcomes(configs[i + 1], video) :
         LET title == IF info.error # None THEN rtitle
                      ELSE DictGet(info.info, "title", <<"U","n","k","n","o","w","n"," ","V","i","d","e","o">>)
             written == WriteFiles(disk, dl, video, attempts + 1)
             scan == ScanFiles(written, 1)
             raised == dl.error # None
             found == ~raised /\ scan.found
             over == NextIndex(i) >= Len(configs)
         IN /\ rtitle' = title
            /\ titleBy' = IF info.error # None THEN titleBy ELSE attempts + 1
            /\ textBy' = IF found THEN scan.by ELSE textBy
            /\ attempts' = attempts + 1
            /\ botOnly' = IF found THEN botOnly ELSE (botOnly /\ dl.error = BotError)
            /\ sleeps' = IF ~raised /\ ~found /\ i < Len(configs) - 1 THEN sleeps + 1 ELSE sleeps
            /\ disk' = IF raised THEN written ELSE scan.disk
            /\ IF found
               THEN /\ Returned(ExtractSubtitlesResult(title, scan.text))
                    /\ UNCHANGED i
               ELSE IF over
               THEN /\ Returned(ExtractSubtitlesResult(None, MsgAllFailed))
                    /\ UNCHANGED i
               ELSE /\ i' = NextIndex(i)
                    /\ UNCHANGED <<pc, video_title, transcript, response>>
    /\ UNCHANGED <<aside, propagated, rev, GEMINI_API_KEY, data, video_url, video, claims, llm>>

\* h.py's extract_subtitles: one attempt, looking for temp_filename.en.srt
SimpleAttempt ==
    /\ pc = "retrieving"
    /\ rev = "h"
    /\ \E info \in InfoOutcomes(video), dl \in DownloadOutcomes(options, video) :
         LET title == DictGet(info.info, "title", <<"U","n","k","n","o","w","n">>)
             written == WriteFiles(disk, dl, video, attempts + 1)
             ext == [lang |-> "en", fmt |-> "srt"]
         IN /\ attempts' = attempts + 1
            /\ botOnly' = (botOnly /\ BotError \in {info.error, dl.error})
            /\ titleBy' = IF info.error # None THEN titleBy ELSE attempts + 1
            /\ textBy' = IF info.error = None /\ dl.error = None /\ Exists(written, ext)
                         THEN FileAt(written, ext).by ELSE textBy
            /\ IF info.error # None
               THEN /\ Returned(<<None, info.error>>)
                    /\ UNCHANGED <<disk, rtitle>>
               ELSE /\ rtitle' = title
                    /\ IF dl.error # None
                       THEN /\ Returned(<<None, dl.error>>)
                            /\ disk' = written
                       ELSE IF Exists(written, ext)
                       THEN /\ Returned(<<title, Cleaned[ext.fmt, FileAt(written, ext).n]>>)
                            /\ disk' = written \ {FileAt(written, ext)}
                       ELSE /\ Returned(<<None, MsgNoSubtitlesFile>>)
                            /\ disk' = written
    /\ UNCHANGED <<aside, propagated, rev, GEMINI_API_KEY, data, video_url, video, i, sleeps, claims, llm>>

\* an except branch whose string check_claims does not recognise as an error
ExtractClaimsResultUnmarked(out) ==
    IF out.error # None THEN <<"F","a","i","l","e","d"," ","t","o"," ","e","x","t","r","a","c","t"," ","c","l","a","i","m","s",":"," ">> \o out.error ELSE out.text

\* extract_claims: the response text, or the error string of its except branch
ExtractClaimsResult(out) ==
    IF out.error # None THEN <<"E","r","r","o","r"," ","e","x","t","r","a","c","t","i","n","g"," ","c","l","a","i","m","s",":"," ">> \o out.error ELSE out.text

\* fact_check_claims: the response text, or the error string of its except branch
FactCheckResult(out) ==
    IF out.error # None THEN <<"E","r","r","o","r"," ","f","a","c","t","-","c","h","e","c","k","i","n","g"," ","c","l","a","i","m","s",":"," ">> \o out.error ELSE out.text

\* a test that lets every stage result through
StageFailedNever(text) == FALSE

\* check_claims' test of a stage result
StageFailed(text) == ~Truthy(text) \/ StartsWith(text, <<"E","r","r","o","r">>)

\* Step 2 of check_claims
ExtractClaims ==
    /\ pc = "claims"
    /\ \E out \in LlmOutcomes :
         LET c == ExtractClaimsResult(out)
         IN /\ llm' = Append(llm, out)
            /\ claims' = c
            /\ IF StageFailed(c)
               THEN /\ response' = ErrorResponse(IF Truthy(c) THEN c ELSE MsgCouldNotClaims, 500)
                    /\ pc' = "responded"
               ELSE /\ pc' = "factcheck"
                    /\ UNCHANGED response
    /\ UNCHANGED <<aside, payload, propagated, rev, GEMINI_API_KEY, data, video_url, video, i, rtitle, disk,
                   video_title, transcript, attempts, sleeps, botOnly>>

\* Step 3 of check_claims and the success response
FactCheck ==
    /\ pc = "factcheck"
    /\ \E out \in LlmOutcomes :
         LET r == FactCheckResult(out)
         IN /\ llm' = Append(llm, out)
            /\ response' =
                 IF StageFailed(r)
                 THEN ErrorResponse(IF Truthy(r) THEN r ELSE MsgCouldNotFactCheck, 500)
                 ELSE [status |-> 200,
                       body |-> [success |-> TRUE,
                                 video_title |-> video_title,
                                 video_url |-> video_url,
                                 transcript_length |-> Len(transcript),
                                 claims |-> claims,
                                 fact_check_results |-> r]]
            /\ pc' = "responded"
    /\ UNCHANGED <<aside, payload, propagated, rev, GEMINI_API_KEY, data, video_url, video, i, rtitle, disk,
                   video_title, transcript, claims, attempts, sleeps, botOnly>>

\* a health endpoint that reports the key as configured whatever its value
HealthCheckConfigured(key) ==
    [status |-> 200, body |-> [status |-> <<"h","e","a","l","t","h","y">>, gemini_configured |-> TRUE]]

\* GET /api/health
health_check(key) ==
    [status |-> 200, body |-> [status |-> <<"h","e","a","l","t","h","y">>, gemini_configured |-> key]]

HealthCheck ==
    /\ health' = health_check(GEMINI_API_KEY)
    /\ UNCHANGED <<request, input, output, staging, calls>>

----------------------------------------------------------------------------
(* Staging files of requests handled side by side *)

MaxRequests == 2

\* the requests (for p.py: the runs of the script) in progress at once
Requests == 1..MaxRequests

\* str(uuid.uuid4())[:8]: eight hexadecimal digits of a random UUID
TempIds == { <<"1","a","2","b","3","c","4","d">>, <<"9","f","8","e","7","d","6","c">> }

\* the stem of outtmpl: temp_subtitle_<temp_id> in the Flask revisions, the
\* fixed 'subtitle' in p.py
temp_filename(prog, temp_id) ==
    IF prog = "p" THEN <<"s","u","b","t","i","t","l","e">> ELSE <<"t","e","m","p","_","s","u","b","t","i","t","l","e","_">> \o temp_id

StagingNames == {temp_filename(prog, id) : prog \in {"ytverifier", "h", "p"}, id \in TempIds}

\* a request not yet received
IdleWorker == [pc |-> "idle", name |-> None, video |-> NoVideo, i |-> 0, touched |-> {}, got |-> 0]

\* no request in progress, no file in the working directory
IdleStaging ==
    /\ workers = [r \in Requests |-> IdleWorker]
    /\ cwd = [name \in StagingNames |-> {}]

----------------------------------------------------------------------------
\* no request received yet
IdleRequest ==
    /\ pc = "idle"
    /\ data = {}
    /\ video_url = None
    /\ video = NoVideo
    /\ i = 0
    /\ rtitle = None
    /\ disk = {}
    /\ video_title = None
    /\ transcript = None
    /\ claims = None
    /\ response = Pending
    /\ attempts = 0
    /\ sleeps = 0
    /\ botOnly = TRUE
    /\ llm = <<>>
    /\ titleBy = 0
    /\ textBy = 0
    /\ propagated = None

Init == /\ rev \in {"ytverifier", "h"}
        /\ GEMINI_API_KEY \in BOOLEAN
        /\ IdleRequest
        /\ IdleStaging
        /\ calls = <<>>
        /\ health = Pending
        /\ input = <<>>
        /\ output = <<>>

Next ==
    \/ CheckClaims \/ RobustAttempt \/ SimpleAttempt \/ ExtractClaims \/ FactCheck
    \/ HealthCheck

Spec == Init /\ [][Next]_vars

FairSpec == Spec /\ WF_vars(Next)

----------------------------------------------------------------------------
(* The two URL parsers as functions of the URL *)

VideoIds == { <<"A","B","C","D","E","F","G","H","I","J","K">>, <<"d","Q","w","4","w","9","W","g","X","c","Q">>, <<"-","_","-","0","1","2","3","4","5","6","v">>, <<"v","_","v","-","y","o","u","t","u","b","e">> }

Schemes == { <<"h","t","t","p","s",":","/","/">>, <<"h","t","t","p",":","/","/">> }

\* the recognized shapes around an identifier
Shapes(id) ==
    { [name |-> "watch", rest |-> <<"w","w","w",".","y","o","u","t","u","b","e",".","c","o","m","/","w","a","t","c","h","?","v","=">> \o id],
      [name |-> "watch", rest |-> <<"y","o","u","t","u","b","e",".","c","o","m","/","w","a","t","c","h","?","v","=">> \o id \o <<"&","t","=","4","2","s">>],
      [name |-> "watch", rest |-> <<"m",".","y","o","u","t","u","b","e",".","c","o","m","/","w","a","t","c","h","?","f","e","a","t","u","r","e","=","s","h","a","r","e","&","v","=">> \o id],
      [name |-> "short", rest |-> <<"y","o","u","t","u",".","b","e","/">> \o id],
      [name |-> "short", rest |-> <<"y","o","u","t","u",".","b","e","/">> \o id \o <<"?","t","=","4","2">>],
      [name |-> "embed", rest |-> <<"w","w","w",".","y","o","u","t","u","b","e",".","c","o","m","/","e","m","b","e","d","/">> \o id],
      [name |-> "embed", rest |-> <<"w","w","w",".","y","o","u","t","u","b","e",".","c","o","m","/","e","m","b","e","d","/">> \o id \o <<"?","s","t","a","r","t","=","5">>],
      [name |-> "v", rest |-> <<"w","w","w",".","y","o","u","t","u","b","e",".","c","o","m","/","v","/">> \o id] }

ParserInputs ==
    UNION {{[id |-> id, shape |-> sh.name, url |-> sc \o sh.rest] :
               sc \in Schemes, sh \in Shapes(id)} : id \in VideoIds}

\* nothing computed yet
Unset == <<>>

ParserInit ==
    /\ rev = "ytverifier"
    /\ GEMINI_API_KEY = TRUE
    /\ IdleRequest
    /\ IdleStaging
    /\ calls = <<>>
    /\ health = Pending
    /\ input \in ParserInputs
    /\ output = Unset

\* ytverifier.py's extract_video_id(url)
ParseUrl ==
    /\ output = Unset
    /\ output' = <<[parser |-> "ytverifier", result |-> extract_video_id(input.url)]>>
    /\ UNCHANGED <<request, health, input, staging, calls>>

\* main.py's extract_video_id(url)
MainParseUrl ==
    /\ output = Unset
    /\ output' = <<[parser |-> "main",
                    result |-> [raised |-> FALSE, value |-> main_extract_video_id(input.url)]]>>
    /\ UNCHANGED <<request, health, input, staging, calls>>

ParserNext == ParseUrl \/ MainParseUrl

ParserSpec == ParserInit /\ [][ParserNext]_vars

----------------------------------------------------------------------------
(* The subtitle cleaning as a function of the file content *)

MaxLines == 3

\* the lines subtitle files are made of
SubtitleLines ==
    [srt |-> { <<"1">>, <<"0","0",":","0","0",":","0","1",",","0","0","0"," ","-","-",">"," ","0","0",":","0","0",":","0","4",",","0","0","0">>, <<"h","i">>, <<" "," ","h","i"," ">>, <<>> },
     vtt |-> { <<"W","E","B","V","T","T">>, <<"1">>, <<"0","0",":","0","0",":","0","1",".","0","0","0"," ","-","-",">"," ","0","0",":","0","0",":","0","4",".","0","0","0">>,
               <<"0","0",":","0","0",":","0","1",",","0","0","0"," ","-","-",">"," ","0","0",":","0","0",":","0","4",",","0","0","0">>, <<"h","i">>, <<" "," ","h","i"," ">>, <<>> }]

\* files of up to MaxLines lines, with or without a final newline
SubtitleInputs ==
    UNION {{[fmt |-> fmt, content |-> Join(doc, <<"\n">>) \o end] :
               doc \in UNION {[1..n -> SubtitleLines[fmt]] : n \in 1..MaxLines},
               end \in {<<>>, <<"\n">>}} : fmt \in {"srt", "vtt"}}

NormalizerInit ==
    /\ rev = "ytverifier"
    /\ GEMINI_API_KEY = TRUE
    /\ IdleRequest
    /\ IdleStaging
    /\ calls = <<>>
    /\ health = Pending
    /\ input \in SubtitleInputs
    /\ output = Unset

\* the cleaning applied to the file content
Normalize ==
    /\ output = Unset
    /\ output' = <<Clean(input.fmt, input.content)>>
    /\ UNCHANGED <<request, health, input, staging, calls>>

\* the cleaning applied to its own result
NormalizeAgain ==
    /\ Len(output) = 1
    /\ output' = Append(output, Clean(input.fmt, output[1]))
    /\ UNCHANGED <<request, health, input, staging, calls>>

NormalizerNext == Normalize \/ NormalizeAgain

NormalizerSpec == NormalizerInit /\ [][NormalizerNext]_vars

----------------------------------------------------------------------------
(* Requests handled side by side in one working directory.  Each step is    *)
(* one of a request's file-system phases taken whole (naming, the download, *)
(* the scan with its read and remove); the steps of different requests      *)
(* interleave.                                                              *)

\* the videos asked about: one with English captions, one without captions
StagedVideos == {BaseVideo, [BaseVideo EXCEPT !.langs = {}]}

\* the yt-dlp options of attempt k + 1 (p.py's options name the same
\* language and format as h.py's)
OptionsOf(prog, k) == IF prog = "ytverifier" THEN configs[k + 1] ELSE options

\* subtitle_file of h.py, and the file p.py previews
EnSrt == [lang |-> "en", fmt |-> "srt"]

\* an attempt ended without text: ytverifier.py goes to its next
\* configuration if there is one, everything else returns
AfterAttempt(prog, w) ==
    IF prog = "ytverifier" /\ NextIndex(w.i) < Len(configs)
    THEN [w EXCEPT !.pc = "download", !.i = NextIndex(w.i)]
    ELSE [w EXCEPT !.pc = "done"]

\* the request after looking for its subtitle files in d: the writers of the
\* files it read are recorded in touched, the writer of the text it returns
\* (p.py: prints) in got
Scanned(prog, w, d) ==
    IF prog = "ytverifier"
    THEN IF ScanFiles(d, 1).found
         THEN [w EXCEPT !.pc = "done", !.got = ScanFiles(d, 1).by,
                        !.touched = @ \cup {f.by : f \in d \ ScanFiles(d, 1).disk}]
         ELSE [AfterAttempt(prog, w) EXCEPT
                        !.touched = @ \cup {f.by : f \in d \ ScanFiles(d, 1).disk}]
    ELSE IF Exists(d, EnSrt)
         THEN [w EXCEPT !.pc = "done", !.got = FileAt(d, EnSrt).by,
                        !.touched = @ \cup {FileAt(d, EnSrt).by}]
         ELSE [w EXCEPT !.pc = "done"]

\* the files of that name after the scan: the Flask revisions remove what
\* they read, p.py removes nothing
Remaining(prog, d) ==
    IF prog = "ytverifier" THEN ScanFiles(d, 1).disk
    ELSE IF prog = "h" /\ Exists(d, EnSrt) THEN d \ {FileAt(d, EnSrt)}
    ELSE d

ConcurrentInit ==
    /\ rev \in {"ytverifier", "h", "p"}
    /\ GEMINI_API_KEY = TRUE
    /\ IdleRequest
    /\ IdleStaging
    /\ calls = <<>>
    /\ health = Pending
    /\ input = <<>>
    /\ output = <<>>

\* request r computes temp_id and temp_filename
NewTempFile(r) ==
    /\ workers[r].pc = "idle"
    /\ \E id \in TempIds, v \in StagedVideos :
         workers' = [workers EXCEPT ![r] = [@ EXCEPT !.pc = "download", !.video = v,
                                                     !.name = temp_filename(rev, id)]]
    /\ UNCHANGED <<request, health, input, output, cwd, calls>>

\* request r's ydl.download: the files it writes under its name; when it
\* raises, the except branch is taken with the files left in place
Download(r) ==
    /\ workers[r].pc = "download"
    /\ \E dl \in DownloadOutcomes(OptionsOf(rev, workers[r].i), workers[r].video) :
         /\ cwd' = [cwd EXCEPT ![workers[r].name] = WriteFiles(@, dl, workers[r].video, r)]
         /\ workers' = [workers EXCEPT ![r] = IF dl.error # None THEN AfterAttempt(rev, @)
                                              ELSE [@ EXCEPT !.pc = "scan"]]
    /\ UNCHANGED <<request, health, input, output, calls>>

\* request r looks for its subtitle files, reads what it finds and (in the
\* Flask revisions) removes it
ReadStaged(r) ==
    /\ workers[r].pc = "scan"
    /\ workers' = [workers EXCEPT ![r] = Scanned(rev, @, cwd[workers[r].name])]
    /\ cwd' = [cwd EXCEPT ![workers[r].name] = Remaining(rev, @)]
    /\ UNCHANGED <<request, health, input, output, calls>>

ConcurrentNext == \E r \in Requests : NewTempFile(r) \/ Download(r) \/ ReadStaged(r)

ConcurrentSpec == ConcurrentInit /\ [][ConcurrentNext]_vars

----------------------------------------------------------------------------
(* main.py's extract_transcript: the fetches it makes for a language list  *)

MaxLanguages == 3

\* the language lists of --languages (default en, en-US, auto) and of a
\* direct call, of up to MaxLanguages entries
LanguageLists == UNION {[1..n -> {"en", "en-US", "auto"}] : n \in 0..MaxLanguages}

\* the exceptions YouTubeTranscriptApi.get_transcript raises: the two that
\* extract_transcript names, another one of the library, and one of the
\* network layer
FetchErrors == {<<"T","r","a","n","s","c","r","i","p","t","s","D","i","s","a","b","l","e","d">>, <<"N","o","T","r","a","n","s","c","r","i","p","t","F","o","u","n","d">>, <<"V","i","d","e","o","U","n","a","v","a","i","l","a","b","l","e">>, <<"C","o","n","n","e","c","t","i","o","n","E","r","r","o","r">>}

\* the transcript a fetch under a languages filter returns: a list holding
\* its entry and the filter it was fetched under
TranscriptFor(filter) == <<"hi">> \o filter

\* YouTubeTranscriptApi.get_transcript(video_id, languages=filter): the
\* transcript for that filter, or one of the exceptions
FetchOutcomes(filter) ==
    {[error |-> e, transcript |-> None] : e \in FetchErrors}
    \cup {[error |-> None, transcript |-> TranscriptFor(filter)]}

\* except clauses that name only the two library exceptions
CaughtNamedOnly(error) == error \in {<<"T","r","a","n","s","c","r","i","p","t","s","D","i","s","a","b","l","e","d">>, <<"N","o","T","r","a","n","s","c","r","i","p","t","F","o","u","n","d">>}

\* the except clauses of the outer try: TranscriptsDisabled,
\* NoTranscriptFound, then Exception
Caught(error) ==
    \/ error = <<"T","r","a","n","s","c","r","i","p","t","s","D","i","s","a","b","l","e","d">>
    \/ error = <<"N","o","T","r","a","n","s","c","r","i","p","t","F","o","u","n","d">>
    \/ error \in FetchErrors

\* what extract_transcript does with the outcome of the fetch made after
\* the loop
FallbackResult(o) ==
    IF o.error = None THEN [raised |-> FALSE, value |-> o.transcript]
    ELSE IF Caught(o.error) THEN [raised |-> FALSE, value |-> None]
    ELSE [raised |-> TRUE, value |-> None]

TranscriptInit ==
    /\ rev = "ytverifier"
    /\ GEMINI_API_KEY = TRUE
    /\ IdleRequest
    /\ IdleStaging
    /\ calls = <<>>
    /\ health = Pending
    /\ input \in [video_id : {<<"d","Q","w","4","w","9","W","g","X","c","Q">>}, languages : LanguageLists]
    /\ output = Unset

\* one pass of the loop over languages: the fetch for the next language;
\* its transcript is returned, or its exception swallowed
FetchPreferred ==
    /\ output = Unset
    /\ Len(calls) < Len(input.languages)
    /\ \E o \in FetchOutcomes(<<input.languages[Len(calls) + 1]>>) :
         /\ calls' = Append(calls, [languages |-> <<input.languages[Len(calls) + 1]>>,
                                    error |-> o.error])
         /\ output' = IF o.error = None
                      THEN <<[result |-> [raised |-> FALSE, value |-> o.transcript]]>>
                      ELSE output
    /\ UNCHANGED <<request, health, input, staging>>

\* the loop is over: the fetch without a languages argument
FetchAny ==
    /\ output = Unset
    /\ Len(calls) = Len(input.languages)
    /\ \E o \in FetchOutcomes(None) :
         /\ calls' = Append(calls, [languages |-> None, error |-> o.error])
         /\ output' = <<[result |-> FallbackResult(o)]>>
    /\ UNCHANGED <<request, health, input, staging>>

TranscriptNext == FetchPreferred \/ FetchAny

TranscriptSpec == TranscriptInit /\ [][TranscriptNext]_vars

----------------------------------------------------------------------------
(* Properties *)

Responded == pc = "responded"

\* extract_subtitles was entered, made at least one attempt, and has returned
RetrievalReturned == attempts > 0 /\ pc \in {"claims", "factcheck", "responded"}

IsErrorBody(resp) == "error" \in DOMAIN resp.body /\ Truthy(resp.body.error)

\* the recognized URL shapes: ?v=ID, youtu.be/ID, /embed/ID, /v/ID with an
\* ID of 11 characters of [0-9A-Za-z_-]
IsVideoId(s) == Len(s) = 11 /\ \A k \in 1..Len(s) : s[k] \in IdChars

HasVideoIdShape(url) ==
    \E marker \in {<<"v","=">>, <<"y","o","u","t","u",".","b","e","/">>, <<"/","e","m","b","e","d","/">>, <<"/","v","/">>} :
      \E k \in 1..(Len(url) - Len(marker) - 10) :
        /\ SubSeq(url, k, k + Len(marker) - 1) = marker
        /\ IsVideoId(SubSeq(url, k + Len(marker), k + Len(marker) + 10))
        /\ (k + Len(marker) + 11 <= Len(url) => url[k + Len(marker) + 11] \notin IdChars)

LlmFailed(out) == out.error # None \/ ~Truthy(out.text)

\* C1: a request whose body has no video_url field, or a null or empty one,
\* is answered 400 "Video URL is required" with no adapter attempt and no
\* LLM call, whether or not the API key is configured.
MissingUrlRejected ==
    (pc # "idle" /\ ~Truthy(DictGet(data, "video_url", None)))
        => /\ Responded
           /\ response = [status |-> 400, body |-> [error |-> <<"V","i","d","e","o"," ","U","R","L"," ","i","s"," ","r","e","q","u","i","r","e","d">>]]
           /\ attempts = 0
           /\ llm = <<>>

MissingUrlWitness ==
    Responded /\ data = {} /\ ~GEMINI_API_KEY /\ response.status = 400

\* C2: when retrieval succeeded with (T, X) and both LLM calls returned
\* non-empty text C and V without raising, the response is 200 with
\* success, video_title T, the request's URL, transcript_length len(X),
\* claims C and fact_check_results V.
SuccessAssembled ==
    (/\ Responded /\ Truthy(video_title) /\ Len(transcript) > MinChars
     /\ Len(llm) = 2 /\ \A k \in 1..2 : ~LlmFailed(llm[k]))
        => response = [status |-> 200,
                       body |-> [success |-> TRUE,
                                 video_title |-> video_title,
                                 video_url |-> DictGet(data, "video_url", None),
                                 transcript_length |-> Len(transcript),
                                 claims |-> llm[1].text,
                                 fact_check_results |-> llm[2].text]]

\* C3: for a URL with no recognizable video-ID shape the request fails as
\* invalid input and no adapter attempt is ever made.
MalformedUrlNeverRetrieved ==
    (pc # "idle" /\ GEMINI_API_KEY /\ Truthy(video_url) /\ ~HasVideoIdShape(video_url))
        => /\ attempts = 0
           /\ Responded
           /\ response = [status |-> 400, body |-> [error |-> <<"I","n","v","a","l","i","d"," ","Y","o","u","T","u","b","e"," ","U","R","L">>]]

\* C4: the LLM is called only for a transcript above the 50-character
\* threshold, and every success response reports a transcript_length
\* above it.
ShortTranscriptNeverExtracted ==
    /\ llm # <<>> => Len(transcript) > MinChars
    /\ (Responded /\ response.status = 200) => response.body.transcript_length > MinChars

\* C5 as stated: at most maxRetries = 3 retrieval attempts per request.
AtMostThreeAttempts == attempts <= 3

\* C5 as amended: at most one retrieval attempt per configuration, four in all.
AtMostOneAttemptPerConfig == attempts <= 4

FourAttemptsWitness == Responded /\ attempts = 4 /\ video_title = None

\* C6: whatever the adapter outcomes, retrieval returns and the request is
\* answered.
RequestAnswered == <>Responded

AllAttemptsFailedWitness ==
    Responded /\ rev = "ytverifier" /\ attempts = Len(configs) /\ sleeps = 0
    /\ response.status = 400

\* C7: once retrieval has returned, no subtitle file it wrote is on disk.
NoStagingFileLeft == RetrievalReturned => disk = {}

\* C8: a request that fails on a malformed URL, on a video without captions
\* or on a below-threshold caption text is answered 400 with an error string.
ClientErrorsAre400 ==
    (/\ Responded /\ GEMINI_API_KEY /\ Truthy(video_url) /\ llm = <<>>
     /\ response.status # 200
     /\ \/ ~HasVideoIdShape(video_url)
        \/ attempts > 0 /\ ~botOnly /\ video.exists /\ (video.langs = {} \/ video.n <= MinChars))
        => response.status = 400 /\ IsErrorBody(response)

\* C9: when every retrieval attempt of a request failed on bot detection,
\* the response is a 5xx error.
BotDetectionIs5xx ==
    (Responded /\ attempts > 0 /\ botOnly /\ llm = <<>>)
        => response.status \in 500..599

\* C10: when an LLM call raises or returns no text, the response is a 5xx
\* error with an error string.
LlmFailureIs5xx ==
    (\E k \in 1..Len(llm) : LlmFailed(llm[k]))
        => Responded /\ response.status \in 500..599 /\ IsErrorBody(response)

FactCheckRaisedWitness ==
    Responded /\ Len(llm) = 2 /\ llm[2].error # None /\ response.status = 500

\* the messages of the exceptions raised by the adapter, the URL parser and
\* the LLM client
ExceptionTexts ==
    {BotError, NetError, UrlError, <<"'","v","'">>}
    \cup {o.error : o \in {x \in LlmOutcomes : x.error # None}}

\* C11: every non-success response is an object with an error string, and
\* that string contains no exception's message.
NoRawExceptionText ==
    (Responded /\ response.status # 200)
        => /\ IsErrorBody(response)
           /\ \A e \in ExceptionTexts : ~Contains(response.body.error, e)

\* C12: without the API key every request that carries a URL is answered
\* 500 "Gemini API key not configured" with no adapter attempt and no LLM
\* call, and the health endpoint answers 200 "healthy" with
\* gemini_configured telling whether the key is present.
CredentialAbsentDisables ==
    /\ (~GEMINI_API_KEY /\ pc # "idle" /\ Truthy(DictGet(data, "video_url", None)))
          => /\ Responded
             /\ response = [status |-> 500,
                            body |-> [error |-> <<"G","e","m","i","n","i"," ","A","P","I"," ","k","e","y"," ","n","o","t"," ","c","o","n","f","i","g","u","r","e","d">>]]
             /\ attempts = 0
             /\ llm = <<>>
    /\ health # Pending
          => health = [status |-> 200,
                       body |-> [status |-> <<"h","e","a","l","t","h","y">>,
                                 gemini_configured |-> GEMINI_API_KEY]]

CredentialAbsentWitness ==
    /\ Responded /\ ~GEMINI_API_KEY /\ Truthy(video_url) /\ response.status = 500
    /\ health # Pending /\ ~health.body.gemini_configured

\* extract_subtitles returned a (title, transcript) pair
RetrievalSucceeded == pc \in {"claims", "factcheck"} \/ llm # <<>>

\* C13: when attempt k succeeds after earlier attempts failed, the title
\* and the caption text returned are the ones attempt k fetched (the title
\* may be the "Unknown Video" default, held by no attempt), and the
\* configuration of attempt k is not the one of attempt 1.
SuccessUsesOwnPayload ==
    (rev = "ytverifier" /\ RetrievalSucceeded)
        => /\ titleBy \in {0, attempts}
           /\ textBy = attempts
           /\ attempts > 1 => configs[attempts] # configs[1]

\* C14: for every identifier and every recognized shape carrying it (?v=ID
\* alone or among other query parameters, youtu.be/ID, /embed/ID, /v/ID),
\* each parser returns that identifier.
SameIdForEveryShape ==
    output # Unset
        => /\ ~output[1].result.raised
           /\ output[1].result.value = input.id

ShortLinkParsedWitness ==
    /\ output # Unset /\ input.shape = "short" /\ output[1].parser = "ytverifier"
    /\ output[1].result.value = <<"d","Q","w","4","w","9","W","g","X","c","Q">>

\* C15: cleaning the cleaned text again, under the same format, changes
\* nothing.
NormalizeIdempotent == Len(output) = 2 => output[2] = output[1]

CleanedTwiceWitness ==
    /\ Len(output) = 2 /\ input.fmt = "srt"
    /\ input.content = <<"1","\n","0","0",":","0","0",":","0","1",",","0","0","0"," ","-","-",">"," ","0","0",":","0","0",":","0","4",",","0","0","0","\n"," "," ","h","i"," ","\n">>
    /\ output[2] = <<"h","i">>

\* s has a substring of the form dd:dd:dd,ddd --> dd:dd:dd,ddd
HasTimecode(s) ==
    \E k \in 0..(Len(s) - Len(TimecodePattern)) :
      \A m \in 1..Len(TimecodePattern) :
        IF TimecodePattern[m] = "d" THEN s[k + m] \in Digits
        ELSE s[k + m] = TimecodePattern[m]

\* C16: the cleaned text contains no timecode, also when the timecode line
\* has no cue-index line before it or is the last line without a newline.
NoTimecodeSurvives == Len(output) >= 1 => ~HasTimecode(output[1])

\* C17: the claim-extraction call is made only after retrieval gave a title
\* and a transcript, the fact-check call only after claim extraction
\* succeeded, a failed stage ends the request, and a request makes at most
\* two LLM calls.
StagesInOrder ==
    /\ Len(llm) <= 2
    /\ llm # <<>> => /\ attempts > 0
                     /\ Truthy(transcript)
                     /\ video_title # None
                     /\ response.status # 400
    /\ Len(llm) = 2 => ~LlmFailed(llm[1]) /\ ~StartsWith(claims, <<"E","r","r","o","r">>)
    /\ (Len(llm) = 1 /\ (LlmFailed(llm[1]) \/ StartsWith(claims, <<"E","r","r","o","r">>))) => Responded
    /\ Len(llm) = 2 => Responded

BothStagesRanWitness ==
    Responded /\ Len(llm) = 2 /\ response.status = 200 /\ attempts = 3

\* C18: extract_subtitles returns a pair for every URL and every adapter
\* behaviour; no exception leaves it.
RetrievalNeverRaises == propagated = None

\* C19: every failed attempt that is followed by another attempt is
\* followed by a delay first, however it failed, and the last attempt is
\* followed by none.
BackoffBetweenAttempts ==
    rev = "ytverifier"
        => /\ pc = "retrieving" => sleeps = attempts
           /\ RetrievalReturned => sleeps = attempts - 1

\* C20: once an attempt has completed without error and found that the
\* video has no captions, no further attempt is made.
PermanentFailureStops ==
    (rev = "ytverifier" /\ video.exists /\ video.langs = {} /\ sleeps >= 1)
        => pc # "retrieving"

\* C21: staging is scoped to one retrieval attempt: the caption text an
\* attempt reads and returns comes from a file that same attempt wrote,
\* never from a file an earlier attempt of the request left on disk.
StagedTextIsOwn == textBy # 0 => textBy = attempts

\* C22: for any interleaving of requests handled side by side, no request
\* reads, returns or deletes a staging file written by another request.
NoCrossRequestStaging == \A r \in Requests : workers[r].touched \subseteq {r}

\* C23: title presence and retrieval success are independent: once an
\* attempt has obtained caption text above the threshold, the request goes
\* on to claim extraction whatever the title is (absent, None or empty),
\* and the caption text is never sent back as the error message.
MissingTitleNotAnError ==
    (textBy # 0 /\ video.n > MinChars /\ pc # "retrieving")
        => /\ RetrievalSucceeded
           /\ ~(IsErrorBody(response) /\ Len(response.body.error) > MinChars
                /\ response.body.error = transcript)

\* C24: extract_transcript fetches the preferred languages in list order and
\* returns the transcript of the first fetch that succeeds; the one fetch
\* without a language filter is made only after every preferred language
\* failed; there are at most len(languages) + 1 fetches; when every fetch
\* failed it returns None and does not raise.
PreferredLanguagesInOrder ==
    /\ Len(calls) <= Len(input.languages) + 1
    /\ \A k \in 1..Len(calls) :
         /\ k <= Len(input.languages) => calls[k].languages = <<input.languages[k]>>
         /\ k > Len(input.languages) => calls[k].languages = None
         /\ k < Len(calls) => calls[k].error # None
    /\ output = Unset => \A k \in 1..Len(calls) : calls[k].error # None
    /\ output # Unset
         => /\ calls # <<>>
            /\ ~output[1].result.raised
            /\ IF calls[Len(calls)].error = None
               THEN output[1].result.value = <<"hi">> \o calls[Len(calls)].languages
               ELSE /\ output[1].result.value = None
                    /\ Len(calls) = Len(input.languages) + 1

AllFetchesFailedWitness ==
    /\ input.languages = <<"en", "en-US", "auto">>
    /\ Len(calls) = 4
    /\ calls[4] = [languages |-> None, error |-> <<"C","o","n","n","e","c","t","i","o","n","E","r","r","o","r">>]
    /\ output = <<[result |-> [raised |-> FALSE, value |-> None]]>>

====
